---- MODULE Spec2Model ----
(***************************************************************************)
(* flightwall-web: the flight-snapshot pipeline of flights.py.             *)
(*                                                                         *)
(* get_flights is an asyncio coroutine.  It runs without interruption      *)
(* between two awaits, so one invocation is modelled by three atomic       *)
(* steps: the call up to the live-position request, the handling of that   *)
(* response up to the first route request (or the return), and the         *)
(* handling of each route response up to the next route request (or the    *)
(* return).  Several invocations may be suspended at the same time; the    *)
(* module-level dict route_cache is the only state they share.             *)
(*                                                                         *)
(* Python values are tagged records.  Strings are sequences of             *)
(* one-character strings so that strip() and upper() are computed.         *)
(* Latitudes are whole degrees on the observer's meridian, where the       *)
(* haversine distance is R * |dlat| (in radians).  Flight fields that no   *)
(* property reads (aircraft_type, bearing_deg, gs, baro_rate, updated_at)  *)
(* are left out of the record.                                             *)
(***************************************************************************)
EXTENDS Integers, Sequences, FiniteSets, TLC

(***************************************************************************)
(* Bounds of the model.                                                    *)
(***************************************************************************)
\* lookups that may fail, per identifier, over the process lifetime
MaxFail == 1
\* entries of one live-position response, where all lists of entries are drawn
MaxList == 3

(***************************************************************************)
(* Python values.                                                          *)
(***************************************************************************)
None == [t |-> "none"]
Str(s) == [t |-> "str", s |-> s]
Num(n) == [t |-> "num", n |-> n]
NaN == [t |-> "nan"]
List(items) == [t |-> "list", items |-> items]
\* a dict is a record with t = "dict" and one field per key; {} has no other field
EmptyDict == [t |-> "dict"]

\* bool(v)
Truthy(v) ==
    CASE v.t = "none" -> FALSE
      [] v.t = "str" -> v.s # <<>>
      [] v.t = "num" -> v.n # 0
      [] v.t = "list" -> v.items # <<>>
      [] v.t = "dict" -> DOMAIN v # {"t"}
      [] OTHER -> TRUE

\* d.get(k) for a dict d
Get(d, k) == IF k \in DOMAIN d THEN d[k] ELSE None

\* a or b
PyOr(a, b) == IF Truthy(a) THEN a ELSE b

\* float(v) does not raise
Floatable(v) == v.t \in {"num", "nan"}

\* isinstance(v, (int, float))
IsNumber(v) == v.t \in {"num", "nan"}

IsSpace(c) == c \in {" ", "\t"}

RECURSIVE LStrip(_)
LStrip(s) == IF s # <<>> /\ IsSpace(Head(s)) THEN LStrip(Tail(s)) ELSE s

RECURSIVE RStrip(_)
RStrip(s) ==
    IF s # <<>> /\ IsSpace(s[Len(s)]) THEN RStrip(SubSeq(s, 1, Len(s) - 1)) ELSE s

\* str.strip()
Strip(s) == RStrip(LStrip(s))

LowerLetters ==
    <<"a", "b", "c", "d", "e", "f", "g", "h", "i", "j", "k", "l", "m",
      "n", "o", "p", "q", "r", "s", "t", "u", "v", "w", "x", "y", "z">>

UpperLetters ==
    <<"A", "B", "C", "D", "E", "F", "G", "H", "I", "J", "K", "L", "M",
      "N", "O", "P", "Q", "R", "S", "T", "U", "V", "W", "X", "Y", "Z">>

Digits == {"0", "1", "2", "3", "4", "5", "6", "7", "8", "9"}

\* the upper-case letter of every lower-case letter
UpperOf ==
    [c \in {LowerLetters[k] : k \in 1..Len(LowerLetters)} |->
        UpperLetters[CHOOSE k \in 1..Len(LowerLetters) : LowerLetters[k] = c]]

UpperCh(c) == IF c \in DOMAIN UpperOf THEN UpperOf[c] ELSE c

Letters == {UpperLetters[k] : k \in 1..Len(UpperLetters)} \cup DOMAIN UpperOf

\* ch.isalpha()
IsAlpha(c) == c \in Letters

\* ch.isalnum()
IsAlnum(c) == IsAlpha(c) \/ c \in Digits

RECURSIVE Upper(_)
\* str.upper()
Upper(s) == IF s = <<>> THEN <<>> ELSE <<UpperCh(Head(s))>> \o Upper(Tail(s))

Abs(x) == IF x < 0 THEN -x ELSE x

(***************************************************************************)
(* Default center and radius                                               *)
(***************************************************************************)
VARIABLES
    settings,     \* config.settings: immutable for the process lifetime
    route_cache,  \* the module-level dict: key -> <<origin, destination>>
    pc,           \* per invocation: "idle", "adsb", "route", "returned", "raised"
    req,          \* per invocation: the live-position request in flight
    raw,          \* per invocation: the live-position response received
    flights,      \* per invocation: the list of Flight records
    idx,          \* per invocation: the position of the enrichment loop
    new_count,    \* per invocation: enrich_routes_adsbdb's counter
    issued,       \* history: per key, outbound route lookups issued
    answered      \* history: per key, lookups that ended in 200-with-route or 404

vars ==
    <<settings, route_cache, pc, req, raw, flights, idx, new_count, issued, answered>>

\* get_current_center(): degrees; the observer's longitude is the meridian 0
get_current_center == <<settings.center_lat, 0>>

\* get_radius_km(): thousandths of a kilometre
get_radius_km == settings.radius_km

(***************************************************************************)
(* Utility functions                                                       *)
(***************************************************************************)
\* haversine() for two points of one meridian, in whole kilometres:
\* a = sin^2(dlat/2), c = |dlat| in radians, R = 6371.0
haversine(lat1, lon1, lat2, lon2) == (6371 * 3142 * Abs(lat2 - lat1)) \div 180000

(***************************************************************************)
(* Main fetcher: center, radius                                            *)
(***************************************************************************)
\* get_flights, "Determine center": both overrides, or the default pair
resolve_center(center_lat, center_lon) ==
    IF center_lat = None \/ center_lon = None
    THEN get_current_center
    ELSE IF Floatable(center_lat) /\ Floatable(center_lon)
         THEN <<center_lat.n, center_lon.n>>
         ELSE get_current_center

\* float(radius_km) / 1.852, in thousandths of a nautical mile
km_to_nm(radius_km) == (radius_km * 1000) \div 1852

\* "Clamp to 10-250 NM": both comparisons are False for a NaN
clamp_radius(radius_nm) ==
    IF radius_nm.t = "nan" THEN radius_nm
    ELSE IF radius_nm.n < 10000 THEN Num(10000)
    ELSE IF radius_nm.n > 250000 THEN Num(250000)
    ELSE radius_nm

\* get_flights, "Determine radius in NM": Num (thousandths of a NM) or NaN
resolve_radius(radius_nm) ==
    clamp_radius(
        IF radius_nm = None THEN Num(km_to_nm(get_radius_km))
        ELSE IF Floatable(radius_nm) THEN radius_nm
        ELSE Num(km_to_nm(get_radius_km)))

(***************************************************************************)
(* Airline lookup                                                          *)
(***************************************************************************)
\* a carrier name: a str the program hands on and never looks into, kept
\* as one unit
Name(v) == Str(<<v>>)

AIRLINE_PREFIXES ==
    (<<"D", "A", "L">> :> Name("Delta")) @@
    (<<"A", "A", "L">> :> Name("American")) @@
    (<<"U", "A", "L">> :> Name("United")) @@
    (<<"S", "W", "A">> :> Name("Southwest")) @@
    (<<"J", "B", "U">> :> Name("JetBlue")) @@
    (<<"N", "K", "S">> :> Name("Spirit")) @@
    (<<"F", "F", "T">> :> Name("Frontier")) @@
    (<<"A", "S", "A">> :> Name("Alaska")) @@
    (<<"R", "P", "A">> :> Name("Republic")) @@
    (<<"S", "K", "W">> :> Name("SkyWest")) @@
    (<<"E", "N", "Y">> :> Name("Envoy")) @@
    (<<"G", "J", "S">> :> Name("GoJet")) @@
    (<<"E", "J", "A">> :> Name("NetJets")) @@
    (<<"E", "J", "M">> :> Name("Executive Jet Management")) @@
    (<<"U", "P", "S">> :> Name("UPS")) @@
    (<<"F", "D", "X">> :> Name("FedEx")) @@
    (<<"J", "I", "A">> :> Name("PSA")) @@
    (<<"P", "D", "T">> :> Name("Piedmont")) @@
    (<<"C", "P", "Z">> :> Name("Compass")) @@
    (<<"N">> :> Name("GA Aircraft")) @@
    (<<"E", "D", "V">> :> Name("Endeavor")) @@
    (<<"C", "J", "T">> :> Name("CargoJet"))

\* AIRLINE_PREFIXES.get(prefix)
prefix_get(prefix) ==
    IF prefix \in DOMAIN AIRLINE_PREFIXES THEN AIRLINE_PREFIXES[prefix] ELSE None

RECURSIVE alpha_prefix(_, _)
\* "for ch in cs": the letters collected so far are prefix
alpha_prefix(cs, prefix) ==
    IF cs = <<>> THEN prefix
    ELSE IF ~IsAlpha(Head(cs)) THEN prefix
    ELSE IF Len(prefix) + 1 = 3 THEN Append(prefix, Head(cs))
    ELSE alpha_prefix(Tail(cs), Append(prefix, Head(cs)))

\* callsign is a str or None
get_airline_from_callsign(callsign) ==
    IF ~Truthy(callsign) THEN None
    ELSE LET cs == Upper(Strip(callsign.s))
         IN  \* US N-number
             IF Len(cs) >= 1 /\ cs[1] = "N" /\ Len(cs) >= 2 /\ IsAlnum(cs[2])
             THEN prefix_get(<<"N">>)
             ELSE LET prefix == alpha_prefix(cs, <<>>)
                  IN  IF prefix = <<>> THEN None ELSE prefix_get(prefix)

(***************************************************************************)
(* Main fetcher: one raw entry to one Flight                               *)
(***************************************************************************)
\* class Flight, with two history fields: src is the position of the raw
\* entry in the response, how is the branch the enrichment loop took for it
Flight(callsign, airline, altitude_ft, distance_km, src) ==
    [callsign |-> callsign, airline |-> airline,
     origin |-> None, destination |-> None,
     altitude_ft |-> altitude_ft, distance_km |-> distance_km,
     src |-> src, how |-> "new"]

\* the body of "for ac in aircraft_list": skip, raise, or one Flight
make_flight(ac, n, center) ==
    IF ac.t # "dict" THEN [kind |-> "raise"]
    ELSE
    LET callsign == PyOr(PyOr(Get(ac, "flight"), Get(ac, "callsign")), None)
        lat == Get(ac, "lat")
        lon == Get(ac, "lon")
        alt == Get(ac, "alt_baro")
    IN  IF ~Truthy(callsign) THEN [kind |-> "skip"]
        ELSE IF lat = None \/ lon = None THEN [kind |-> "skip"]
        \* haversine(): radians(str - float) raises TypeError
        ELSE IF lat.t # "num" \/ lon.t # "num" THEN [kind |-> "raise"]
        \* callsign.strip() on a value that is no str raises AttributeError
        ELSE IF callsign.t # "str" THEN [kind |-> "raise"]
        \* int(float("nan")) raises ValueError
        ELSE IF alt.t = "nan" THEN [kind |-> "raise"]
        ELSE [kind |-> "flight",
              f |-> Flight(Strip(callsign.s),
                           get_airline_from_callsign(callsign),
                           IF IsNumber(alt) THEN alt ELSE None,
                           Num(haversine(center[1], center[2], lat.n, lon.n)),
                           n)]

RECURSIVE build_from(_, _, _, _)
\* the loop over aircraft_list from entry n on, out the flights so far
build_from(acs, n, center, out) ==
    IF n > Len(acs) THEN [raise |-> FALSE, flights |-> out]
    ELSE LET r == make_flight(acs[n], n, center)
         IN  IF r.kind = "raise" THEN [raise |-> TRUE, flights |-> <<>>]
             ELSE IF r.kind = "skip" THEN build_from(acs, n + 1, center, out)
             ELSE build_from(acs, n + 1, center, Append(out, r.f))

\* data.get("ac", []) and the loop over it
build_flights(data, center) ==
    IF data.t # "dict" THEN [raise |-> TRUE, flights |-> <<>>]
    ELSE LET aircraft_list == IF "ac" \in DOMAIN data THEN data.ac ELSE List(<<>>)
         IN  \* "for ac in None" raises TypeError
             IF aircraft_list.t # "list" THEN [raise |-> TRUE, flights |-> <<>>]
             ELSE build_from(aircraft_list.items, 1, center, <<>>)

(***************************************************************************)
(* Main fetcher: sort                                                      *)
(***************************************************************************)
\* sort_key with the altitude ascending
sort_key_ascending(f) ==
    <<IF f.distance_km # None THEN f.distance_km.n ELSE 1000000000,
      IF Truthy(f.altitude_ft) THEN f.altitude_ft.n ELSE 0>>

\* the key lambda of flights.sort
sort_key(f) ==
    <<IF f.distance_km # None THEN f.distance_km.n ELSE 1000000000,
      -(IF Truthy(f.altitude_ft) THEN f.altitude_ft.n ELSE 0)>>

\* tuple comparison a < b
key_less(a, b) == a[1] < b[1] \/ (a[1] = b[1] /\ a[2] < b[2])

RECURSIVE insert_sorted(_, _)
\* x goes behind every element whose key is not greater: the sort is stable
insert_sorted(s, x) ==
    IF s = <<>> THEN <<x>>
    ELSE IF key_less(sort_key(x), sort_key(Head(s))) THEN <<x>> \o s
    ELSE <<Head(s)>> \o insert_sorted(Tail(s), x)

RECURSIVE sort_flights(_)
\* flights.sort(key=...)
sort_flights(s) ==
    IF s = <<>> THEN <<>>
    ELSE insert_sorted(sort_flights(SubSeq(s, 1, Len(s) - 1)), s[Len(s)])

(***************************************************************************)
(* Route lookup cache                                                      *)
(***************************************************************************)
max_new == settings.route_max_new_per_cycle

\* cs = (f.callsign or "").strip().upper()
cache_key(f) == Upper(Strip(f.callsign))

\* route_cache[cs] = pair
cache_put(cache, cs, pair) ==
    [k \in DOMAIN cache \cup {cs} |-> IF k = cs THEN pair ELSE cache[k]]

\* the nested function pick of enrich_routes_adsbdb
pick(apt) ==
    IF apt.t # "dict" THEN None
    ELSE LET icao == Get(apt, "icao_code")
             iata == Get(apt, "iata_code")
             name == Get(apt, "name")
         IN  IF icao.t = "str" /\ Strip(icao.s) # <<>> THEN Str(Strip(icao.s))
             ELSE IF iata.t = "str" /\ Strip(iata.s) # <<>> THEN Str(Strip(iata.s))
             ELSE IF name.t = "str" /\ Strip(name.s) # <<>> THEN Str(Strip(name.s))
             ELSE None

\* the body of the try block for one HTTP response:
\* "fail" is any exception, caught by "except Exception"
handle_route(resp) ==
    IF resp.k = "timeout" THEN [kind |-> "fail"]
    ELSE IF resp.status = 404 THEN [kind |-> "notfound"]
    \* resp.raise_for_status()
    ELSE IF resp.status >= 400 THEN [kind |-> "fail"]
    \* resp.json() raises on a body that is no JSON
    ELSE IF resp.body.t = "badjson" THEN [kind |-> "fail"]
    ELSE
    LET data == PyOr(resp.body, EmptyDict)
    IN  IF data.t # "dict" THEN [kind |-> "fail"]
        ELSE
        LET response == PyOr(Get(data, "response"), EmptyDict)
        IN  IF response.t # "dict" THEN [kind |-> "fail"]
            ELSE
            LET fr == PyOr(Get(response, "flightroute"), EmptyDict)
            IN  IF fr.t # "dict" THEN [kind |-> "fail"]
                ELSE [kind |-> "ok",
                      origin |-> pick(PyOr(Get(fr, "origin"), EmptyDict)),
                      dest |-> pick(PyOr(Get(fr, "destination"), EmptyDict))]

RECURSIVE enrich_scan_off_by_one(_, _, _, _)
\* enrich_scan with the budget test "new_count + 1 >= max_new"
enrich_scan_off_by_one(fl, n, cache, cnt) ==
    IF n > Len(fl) THEN [flights |-> fl, idx |-> n, wait |-> FALSE]
    ELSE
    LET f == fl[n]
        cs == Upper(Strip(f.callsign))
    IN  IF Truthy(f.origin) \/ Truthy(f.destination)
        THEN enrich_scan_off_by_one([fl EXCEPT ![n].how = "set"], n + 1, cache, cnt)
        ELSE IF cs = <<>>
        THEN enrich_scan_off_by_one([fl EXCEPT ![n].how = "blank"], n + 1, cache, cnt)
        ELSE IF cs \in DOMAIN cache
        THEN enrich_scan_off_by_one([fl EXCEPT ![n].origin = cache[cs][1],
                                               ![n].destination = cache[cs][2],
                                               ![n].how = "hit"], n + 1, cache, cnt)
        ELSE IF cnt + 1 >= settings.route_max_new_per_cycle
        THEN enrich_scan_off_by_one([fl EXCEPT ![n].how = "budget"], n + 1, cache, cnt)
        ELSE [flights |-> [fl EXCEPT ![n].how = "wait"], idx |-> n, wait |-> TRUE]

RECURSIVE enrich_scan(_, _, _, _)
\* "for f in flights" from record n on, up to the next "await client.get":
\* wait says that a request for record idx is in flight
enrich_scan(fl, n, cache, cnt) ==
    IF n > Len(fl) THEN [flights |-> fl, idx |-> n, wait |-> FALSE]
    ELSE
    LET f == fl[n]
        cs == cache_key(f)
    IN  IF Truthy(f.origin) \/ Truthy(f.destination)
        THEN enrich_scan([fl EXCEPT ![n].how = "set"], n + 1, cache, cnt)
        ELSE IF cs = <<>>
        THEN enrich_scan([fl EXCEPT ![n].how = "blank"], n + 1, cache, cnt)
        ELSE IF cs \in DOMAIN cache
        THEN enrich_scan([fl EXCEPT ![n].origin = cache[cs][1],
                                    ![n].destination = cache[cs][2],
                                    ![n].how = "hit"], n + 1, cache, cnt)
        ELSE IF cnt >= max_new
        THEN enrich_scan([fl EXCEPT ![n].how = "budget"], n + 1, cache, cnt)
        ELSE [flights |-> [fl EXCEPT ![n].how = "wait"], idx |-> n, wait |-> TRUE]

\* apply_route with an "except" branch that stores the unresolved marker
apply_route_poison(fl, n, cache, cnt, h) ==
    LET cs == cache_key(fl[n])
    IN  IF h.kind = "ok"
        THEN [flights |-> [fl EXCEPT ![n].origin = h.origin,
                                     ![n].destination = h.dest,
                                     ![n].how = "ok"],
              cache |-> cache_put(cache, cs, <<h.origin, h.dest>>),
              cnt |-> cnt + 1]
        ELSE [flights |-> [fl EXCEPT ![n].how = h.kind],
              cache |-> cache_put(cache, cs, <<None, None>>),
              cnt |-> IF h.kind = "notfound" THEN cnt + 1 ELSE cnt]

\* apply_route with a 404 branch that forgets "new_count += 1"
apply_route_free404(fl, n, cache, cnt, h) ==
    LET cs == cache_key(fl[n])
    IN  IF h.kind = "notfound"
        THEN [flights |-> [fl EXCEPT ![n].how = "notfound"],
              cache |-> cache_put(cache, cs, <<None, None>>),
              cnt |-> cnt]
        ELSE IF h.kind = "ok"
        THEN [flights |-> [fl EXCEPT ![n].origin = h.origin,
                                     ![n].destination = h.dest,
                                     ![n].how = "ok"],
              cache |-> cache_put(cache, cs, <<h.origin, h.dest>>),
              cnt |-> cnt + 1]
        ELSE [flights |-> [fl EXCEPT ![n].how = "fail"], cache |-> cache, cnt |-> cnt]

\* apply_route with a 200 branch that forgets "route_cache[cs] = (origin, dest)"
apply_route_nostore(fl, n, cache, cnt, h) ==
    LET cs == cache_key(fl[n])
    IN  IF h.kind = "notfound"
        THEN [flights |-> [fl EXCEPT ![n].how = "notfound"],
              cache |-> cache_put(cache, cs, <<None, None>>),
              cnt |-> cnt + 1]
        ELSE IF h.kind = "ok"
        THEN [flights |-> [fl EXCEPT ![n].origin = h.origin,
                                     ![n].destination = h.dest,
                                     ![n].how = "ok"],
              cache |-> cache,
              cnt |-> cnt + 1]
        ELSE [flights |-> [fl EXCEPT ![n].how = "fail"], cache |-> cache, cnt |-> cnt]

\* what one route response does to record n, the cache and the counter
apply_route(fl, n, cache, cnt, h) ==
    LET cs == cache_key(fl[n])
    IN  IF h.kind = "notfound"
        THEN [flights |-> [fl EXCEPT ![n].how = "notfound"],
              cache |-> cache_put(cache, cs, <<None, None>>),
              cnt |-> cnt + 1]
        ELSE IF h.kind = "ok"
        THEN [flights |-> [fl EXCEPT ![n].origin = h.origin,
                                     ![n].destination = h.dest,
                                     ![n].how = "ok"],
              cache |-> cache_put(cache, cs, <<h.origin, h.dest>>),
              cnt |-> cnt + 1]
        ELSE [flights |-> [fl EXCEPT ![n].how = "fail"], cache |-> cache, cnt |-> cnt]

(***************************************************************************)
(* The invocations                                                         *)
(***************************************************************************)
Slots == {1, 2}

NoReq == [t |-> "none"]
NoResp == [k |-> "none"]

\* the key slot j has a route request in flight for, <<>> when it has none
waiting_key(j) == IF pc[j] = "route" THEN cache_key(flights[j][idx[j]]) ELSE <<>>

\* route lookups for key cs that have failed so far
failed(cs) ==
    issued[cs] - answered[cs] - Cardinality({j \in Slots : waiting_key(j) = cs})

\* one more lookup issued for the key of record s.idx, when s.wait
issue(s) ==
    IF s.wait
    THEN [issued EXCEPT ![cache_key(s.flights[s.idx])] = @ + 1]
    ELSE issued

\* get_flights from the call to "await client.get(url)" of the live-position request
Call(i, centers, radii) ==
    /\ pc[i] \in {"idle", "returned", "raised"}
    /\ \E c \in centers, r \in radii :
          req' = [req EXCEPT ![i] = [t |-> "req",
                                     center |-> resolve_center(c[1], c[2]),
                                     radius_arg |-> r,
                                     radius_nm |-> resolve_radius(r)]]
    /\ pc' = [pc EXCEPT ![i] = "adsb"]
    /\ raw' = [raw EXCEPT ![i] = NoResp]
    /\ flights' = [flights EXCEPT ![i] = <<>>]
    /\ idx' = [idx EXCEPT ![i] = 0]
    /\ new_count' = [new_count EXCEPT ![i] = 0]
    /\ UNCHANGED <<settings, route_cache, issued, answered>>

\* get_flights from the live-position response to the first route request,
\* or to its return
AdsbResponse(i, outcomes) ==
    /\ pc[i] = "adsb"
    /\ \E o \in outcomes :
          /\ raw' = [raw EXCEPT ![i] = o]
          /\ IF o.k # "json"
             \* except Exception: return []
             THEN /\ pc' = [pc EXCEPT ![i] = "returned"]
                  /\ UNCHANGED <<flights, idx, issued>>
             ELSE \E b \in {build_flights(o.data, req[i].center)} :
                  IF b.raise
                  THEN /\ pc' = [pc EXCEPT ![i] = "raised"]
                       /\ UNCHANGED <<flights, idx, issued>>
                  ELSE \E sorted \in {sort_flights(b.flights)} :
                       \E s \in {IF settings.route_lookup_enabled
                                 THEN enrich_scan(sorted, 1, route_cache, 0)
                                 ELSE [flights |-> sorted, idx |-> 0, wait |-> FALSE]} :
                          /\ pc' = [pc EXCEPT ![i] = IF s.wait THEN "route" ELSE "returned"]
                          /\ flights' = [flights EXCEPT ![i] = s.flights]
                          /\ idx' = [idx EXCEPT ![i] = s.idx]
                          /\ issued' = issue(s)
    /\ req' = [req EXCEPT ![i] = NoReq]
    /\ UNCHANGED <<settings, route_cache, new_count, answered>>

\* enrich_routes_adsbdb from one route response to the next route request,
\* or to the return of get_flights
RouteResponse(i, outcomes) ==
    /\ pc[i] = "route"
    /\ \E o \in outcomes :
       \E cs \in {cache_key(flights[i][idx[i]])} :
       \E h \in {handle_route(o)} :
       \E a \in {apply_route(flights[i], idx[i], route_cache, new_count[i], h)} :
       \E s \in {enrich_scan(a.flights, idx[i] + 1, a.cache, a.cnt)} :
          /\ h.kind = "fail" => failed(cs) < MaxFail
          /\ route_cache' = a.cache
          /\ new_count' = [new_count EXCEPT ![i] = a.cnt]
          /\ answered' = IF h.kind = "fail" THEN answered
                         ELSE [answered EXCEPT ![cs] = @ + 1]
          /\ pc' = [pc EXCEPT ![i] = IF s.wait THEN "route" ELSE "returned"]
          /\ flights' = [flights EXCEPT ![i] = s.flights]
          /\ idx' = [idx EXCEPT ![i] = s.idx]
          /\ issued' = issue(s)
    /\ UNCHANGED <<settings, req, raw>>

(***************************************************************************)
(* The environment: what the two providers may answer                      *)
(***************************************************************************)
\* a live-position entry with its identifier under "flight"
Ac(flight, lat, alt) ==
    [t |-> "dict", flight |-> flight, lat |-> Num(lat), lon |-> Num(0), alt_baro |-> alt]

\* a well-formed live-position body
Payload(acs) == [t |-> "dict", ac |-> List(acs)]

ATransport == [k |-> "transport"]
AStatus == [k |-> "status"]
ABadJson == [k |-> "badjson"]
AJson(data) == [k |-> "json", data |-> data]

\* the ways the live-position request fails inside the try block
AdsbFailures == {ATransport, AStatus, ABadJson}

RTimeout == [k |-> "timeout"]
RStatus(status) == [k |-> "http", status |-> status]
R200(body) == [k |-> "http", status |-> 200, body |-> body]
BadJson == [t |-> "badjson"]
RouteBody(o, d) ==
    [t |-> "dict",
     response |-> [t |-> "dict",
                   flightroute |-> [t |-> "dict", origin |-> o, destination |-> d]]]
AptIcao ==
    [t |-> "dict", icao_code |-> Str(<<"K", "D">>), iata_code |-> Str(<<"D">>),
     name |-> Str(<<"x">>)]
AptIata == [t |-> "dict", icao_code |-> Str(<<" ">>), iata_code |-> Str(<<"A", " ">>)]

\* route responses that raise inside the try block
RouteFailures ==
    {RTimeout, RStatus(500), R200(BadJson), R200(List(<<Num(1)>>)),
     R200([t |-> "dict", response |-> Str(<<"x">>)])}

\* route responses that do not raise: 404, and three 200 bodies
RouteAnswers ==
    {RStatus(404), R200(RouteBody(AptIcao, AptIata)), R200(RouteBody(AptIcao, None)),
     R200(List(<<>>))}

RouteOutcomes == RouteFailures \cup RouteAnswers

\* the identifiers of the model, as the cache keys them
Keys == {<<"A", "1">>, <<"B", "2">>, <<"C", "3">>, <<"D", "4">>, <<"E", "5">>}

DefaultCenter == <<None, None>>
DefaultRadius == None

BaseSettings ==
    [center_lat |-> 0, radius_km |-> 130000,
     route_lookup_enabled |-> TRUE, route_max_new_per_cycle |-> 2]

InitWith(choices) ==
    /\ settings \in choices
    /\ route_cache = <<>>
    /\ pc = [i \in Slots |-> "idle"]
    /\ req = [i \in Slots |-> NoReq]
    /\ raw = [i \in Slots |-> NoResp]
    /\ flights = [i \in Slots |-> <<>>]
    /\ idx = [i \in Slots |-> 0]
    /\ new_count = [i \in Slots |-> 0]
    /\ issued = [k \in Keys |-> 0]
    /\ answered = [k \in Keys |-> 0]

(***************************************************************************)
(* Spec: two invocations that may overlap, over two identifiers            *)
(***************************************************************************)
OverlapFeed ==
    {AJson(Payload(<<Ac(Str(<<" ", "a", "1">>), 1, Num(1000))>>)),
     AJson(Payload(<<Ac(Str(<<"A", "1", " ">>), 1, Num(1000)),
                     Ac(Str(<<"b", "2">>), 2, None)>>)),
     ATransport}

OverlapRoutes ==
    {RTimeout, RStatus(500), RStatus(404), R200(RouteBody(AptIcao, AptIata))}

OverlapSettings ==
    {BaseSettings,
     [BaseSettings EXCEPT !.route_max_new_per_cycle = 1],
     [BaseSettings EXCEPT !.route_lookup_enabled = FALSE]}

Init == InitWith(OverlapSettings)

Next ==
    \E i \in Slots :
        \/ Call(i, {DefaultCenter}, {DefaultRadius})
        \/ AdsbResponse(i, OverlapFeed)
        \/ RouteResponse(i, OverlapRoutes)

Spec == Init /\ [][Next]_vars

(***************************************************************************)
(* Properties of the overlapping invocations                               *)
(***************************************************************************)
\* the step in which invocation i handles a route response of the given kind
RouteStep(i, kind) == pc[i] = "route" /\ flights'[i][idx[i]].how = kind

\* the first record of fl whose key is not blank and not in the cache; 0 if none
first_uncached(fl, cache) ==
    LET S == {n \in 1..Len(fl) : cache_key(fl[n]) # <<>> /\ cache_key(fl[n]) \notin DOMAIN cache}
    IN  IF S = {} THEN 0 ELSE CHOOSE n \in S : \A m \in S : n <= m

C4_NegativeCaching ==
    [][/\ \A i \in Slots :
             RouteStep(i, "notfound") =>
                LET cs == cache_key(flights[i][idx[i]])
                IN  /\ cs \in DOMAIN route_cache'
                    /\ route_cache'[cs] = <<None, None>>
                    /\ new_count'[i] = new_count[i] + 1
       /\ \A k \in DOMAIN route_cache : k \in DOMAIN route_cache'
       /\ \A k \in Keys : issued'[k] > issued[k] => k \notin DOMAIN route_cache']_vars

\* C4's case: after a 404 for an identifier, a later invocation meets the
\* identifier, takes the marker from the cache and issues nothing for it
C4_Witness ==
    \E i \in Slots : \E n \in 1..Len(flights[i]) :
        LET cs == cache_key(flights[i][n])
        IN  /\ pc[i] = "returned"
            /\ flights[i][n].how = "hit"
            /\ flights[i][n].origin = None
            /\ cs \in DOMAIN route_cache
            /\ route_cache[cs] = <<None, None>>
            /\ answered[cs] = 1
            /\ issued[cs] = 1

\* C9 as claimed: no two invocations have a route lookup in flight for the
\* same identifier, so a key that is not in the cache gets one lookup only
C9_KeyMutex ==
    \A i, j \in Slots :
        (i # j /\ pc[i] = "route" /\ pc[j] = "route") => waiting_key(i) # waiting_key(j)

(***************************************************************************)
(* SeqSpec: invocations that do not overlap (each one returns before the   *)
(* next is called), over five identifiers                                  *)
(***************************************************************************)
\* five records with distinct identifiers, nearest first
FiveDistinct ==
    <<Ac(Str(<<"a", "1">>), 1, Num(1000)), Ac(Str(<<"b", "2">>), 2, Num(1000)),
      Ac(Str(<<"c", "3">>), 3, Num(1000)), Ac(Str(<<"d", "4">>), 4, Num(1000)),
      Ac(Str(<<"e", "5">>), 5, Num(1000))>>

\* three records, two of them with one identifier in two spellings
TwoSpellings ==
    <<Ac(Str(<<" ", "a", "1">>), 1, Num(1000)), Ac(Str(<<"A", "1", " ">>), 2, Num(1000)),
      Ac(Str(<<"b", "2">>), 3, Num(1000))>>

SeqFeed == {AJson(Payload(FiveDistinct)), AJson(Payload(TwoSpellings)), ATransport}

SeqRoutes == {RTimeout, RStatus(500), RStatus(404), R200(RouteBody(AptIcao, AptIata))}

SeqSettings ==
    {[BaseSettings EXCEPT !.route_max_new_per_cycle = b] : b \in 0..3}

SeqInit == InitWith(SeqSettings)

SeqNext ==
    \/ Call(1, {DefaultCenter}, {DefaultRadius})
    \/ AdsbResponse(1, SeqFeed)
    \/ RouteResponse(1, SeqRoutes)

SeqSpec == SeqInit /\ [][SeqNext]_vars

(***************************************************************************)
(* Properties of the invocations that do not overlap                       *)
(***************************************************************************)
\* the records of invocation i for which the loop took one of the branches hows
Took(i, hows) == {n \in 1..Len(flights[i]) : flights[i][n].how \in hows}

\* outbound route lookups invocation i has issued so far
Calls(i) == Cardinality(Took(i, {"wait", "ok", "notfound", "fail"}))

\* the lookups among them that ended in a 200 with a route object or in a 404
Answers(i) == Cardinality(Took(i, {"ok", "notfound"}))

Unresolved(f) == f.origin = None /\ f.destination = None

\* C1 as claimed: whatever the lookups answer, one invocation issues at most
\* max_new outbound route lookups
C1_CallsWithinBudget == \A i \in Slots : Calls(i) <= max_new

\* C1, amended: one invocation gets at most max_new lookups answered (a 200
\* or a 404); lookups that raise are not counted.  With a budget of 2 and
\* five records with distinct identifiers, none of them cached and no lookup
\* raising, exactly 2 lookups are issued and the other 3 records return
\* without origin and destination.
C1_AnswersWithinBudget ==
    \A i \in Slots :
        /\ Answers(i) <= max_new
        /\ (/\ pc[i] = "returned"
            /\ max_new = 2
            /\ Len(flights[i]) = 5
            /\ Cardinality({cache_key(flights[i][n]) : n \in 1..5}) = 5
            /\ Took(i, {"hit", "fail", "blank", "set"}) = {}) =>
                /\ Calls(i) = 2
                /\ Cardinality({n \in 1..5 : /\ flights[i][n].how = "budget"
                                             /\ Unresolved(flights[i][n])}) = 3

\* C1's case: budget 2, five distinct uncached identifiers, two lookups
\* answered, three records left alone
C1_Witness ==
    /\ pc[1] = "returned"
    /\ max_new = 2
    /\ Len(flights[1]) = 5
    /\ Took(1, {"ok", "notfound"}) = {1, 2}
    /\ Took(1, {"budget"}) = {3, 4, 5}
    /\ \A n \in 3..5 : Unresolved(flights[1][n])

\* C2 as claimed: over invocations that do not overlap, at most one outbound
\* lookup is ever issued for one key
C2_OneLookupPerKey == \A k \in Keys : issued[k] <= 1

\* C2, amended: over invocations that do not overlap, at most one lookup per
\* key is ever answered (a 200 or a 404; a lookup that raised may be
\* repeated); a record whose key is in the cache carries the cached pair,
\* unless it is the record the answer came for or a record whose own lookup
\* raised before the answer; and the counter counts the answered lookups
\* only, so a copy from the cache leaves it unchanged.
C2_CacheIdempotent ==
    /\ \A k \in Keys : answered[k] <= 1
    /\ \A n \in 1..Len(flights[1]) :
          LET f == flights[1][n]
              cs == cache_key(f)
          IN  /\ f.how = "hit" =>
                    /\ cs \in DOMAIN route_cache
                    /\ <<f.origin, f.destination>> = route_cache[cs]
              /\ (cs \in DOMAIN route_cache /\ f.how \notin {"new", "hit"}) =>
                    \/ f.how \in {"ok", "notfound"}
                    \/ /\ f.how = "fail"
                       /\ \E m \in (n + 1)..Len(flights[1]) :
                             /\ cache_key(flights[1][m]) = cs
                             /\ flights[1][m].how \in {"ok", "notfound"}
    /\ pc[1] \in {"route", "returned"} => new_count[1] = Answers(1)

\* C2's case: an invocation meets a key twice, in two spellings, after its
\* one lookup was answered by an earlier invocation; both records get the
\* pair and the counter stays 0
C2_Witness ==
    /\ pc[1] = "returned"
    /\ Len(flights[1]) = 3
    /\ flights[1][1].how = "hit"
    /\ flights[1][2].how = "hit"
    /\ flights[1][1].callsign # flights[1][2].callsign
    /\ flights[1][1].origin = Str(<<"K", "D">>)
    /\ flights[1][2].origin = Str(<<"K", "D">>)
    /\ issued[<<"A", "1">>] = 1
    /\ answered[<<"A", "1">>] = 1
    /\ new_count[1] = 0

(***************************************************************************)
(* FetchSpec: one invocation after the other, over every shape of          *)
(* live-position response                                                  *)
(***************************************************************************)
\* all sequences over S of length 1..n
RECURSIVE SeqsUpTo(_, _)
SeqsUpTo(S, n) ==
    IF n = 0 THEN {}
    ELSE LET shorter == SeqsUpTo(S, n - 1)
         IN  {<<x>> : x \in S} \cup shorter \cup {Append(q, x) : q \in shorter, x \in S}

\* entries that differ in distance and altitude only
SortEntries ==
    {Ac(Str(<<"a", "1">>), lat, alt) :
        lat \in {1, 2}, alt \in {None, Num(-100), Num(0), Num(2000), Num(5000)}}

\* entries that lack a field, hold a value of the wrong type, or are no dict
ShapeEntries ==
    {Ac(Str(<<"a", "1">>), 1, Str(<<"g">>)),
     Ac(Str(<<" ", " ">>), 1, Num(1000)),
     Ac(Str(<<>>), 1, Num(1000)),
     Ac(Num(5), 1, Num(1000)),
     Ac(Str(<<"a", "1">>), 1, NaN),
     [t |-> "dict", callsign |-> Str(<<"b", "2">>), lat |-> Num(2), lon |-> Num(0)],
     [t |-> "dict", flight |-> Str(<<" ">>), callsign |-> Str(<<"b", "2">>),
      lat |-> Num(2), lon |-> Num(0)],
     [t |-> "dict", flight |-> Str(<<"b", "2">>), lon |-> Num(0), alt_baro |-> Num(0)],
     [t |-> "dict", flight |-> Str(<<"b", "2">>), lat |-> Num(2)],
     [t |-> "dict", flight |-> Str(<<"b", "2">>), lat |-> Str(<<"x">>), lon |-> Num(0)],
     [t |-> "dict", lat |-> Num(1), lon |-> Num(0)],
     Str(<<"x">>)}

\* live-position bodies that are JSON but not the expected object
ShapeBodies ==
    {List(<<>>), None, EmptyDict, [t |-> "dict", ac |-> None], Payload(<<>>)}

FetchFeed ==
    AdsbFailures
    \cup {AJson(b) : b \in ShapeBodies}
    \cup {AJson(Payload(acs)) : acs \in SeqsUpTo(ShapeEntries, 2)}
    \cup {AJson(Payload(<<Ac(Str(<<"a", "1">>), 1, Num(1000)), e,
                          Ac(Str(<<"b", "2">>), 2, Num(1000))>>)) : e \in ShapeEntries}

CenterOverrides ==
    {<<None, None>>, <<Num(1), Num(0)>>, <<Num(1), None>>, <<Str(<<"x">>), Num(0)>>}

FetchSettings == {BaseSettings, [BaseSettings EXCEPT !.route_lookup_enabled = FALSE]}

FetchInit == InitWith(FetchSettings)

FetchNext ==
    \/ Call(1, CenterOverrides, {DefaultRadius})
    \/ AdsbResponse(1, FetchFeed)
    \/ RouteResponse(1, RouteOutcomes)

FetchSpec == FetchInit /\ [][FetchNext]_vars

(***************************************************************************)
(* SortSpec: one invocation after the other, over every list of up to      *)
(* MaxList entries that differ in distance and altitude                    *)
(***************************************************************************)
SortFeed == {AJson(Payload(acs)) : acs \in SeqsUpTo(SortEntries, MaxList)}

SortRoutes == {RTimeout, RStatus(404), R200(RouteBody(AptIcao, AptIata))}

SortInit == InitWith({BaseSettings})

SortNext ==
    \/ Call(1, {DefaultCenter, <<Num(1), Num(0)>>}, {DefaultRadius})
    \/ AdsbResponse(1, SortFeed)
    \/ RouteResponse(1, SortRoutes)

SortSpec == SortInit /\ [][SortNext]_vars

(***************************************************************************)
(* RadiusSpec: one invocation after the other, over the radius overrides   *)
(* and the configured radii                                                *)
(***************************************************************************)
\* radius_nm as get_flights may receive it: thousandths of a NM, a float
\* NaN (the query string radius_nm=nan), a value float() rejects, or None
RadiusOverrides ==
    {None, NaN, Str(<<"x">>), Num(-1000), Num(0), Num(5000), Num(9999), Num(10000),
     Num(100000), Num(250000), Num(250001), Num(999000)}

\* FLIGHTWALL_RADIUS_KM, in thousandths of a kilometre
KmChoices == {0, 10000, 18520, 130000, 200000, 463000, 500000}

RadiusFeed == {ATransport, AJson(Payload(<<Ac(Str(<<"a", "1">>), 1, Num(1000))>>))}

RadiusInit == InitWith({[BaseSettings EXCEPT !.radius_km = km] : km \in KmChoices})

RadiusNext ==
    \/ Call(1, {DefaultCenter}, RadiusOverrides)
    \/ AdsbResponse(1, RadiusFeed)
    \/ RouteResponse(1, SortRoutes)

RadiusSpec == RadiusInit /\ [][RadiusNext]_vars

(***************************************************************************)
(* AirlineSpec: one invocation after the other, over one-entry responses   *)
(* whose identifier is a carrier code followed by digits, a registration,  *)
(* or an identifier of no carrier; the route lookup is switched off        *)
(***************************************************************************)
FlightNumbers == {<<"1">>, <<"2", "9", "6", "8">>}

CarrierIds == {code \o num : code \in DOMAIN AIRLINE_PREFIXES, num \in FlightNumbers}

OtherIds ==
    {<<"N", "4", "4", "7", "M", "M">>, <<"n", "1", "2">>, <<"N">>, <<"N", "-", "1">>,
     <<"N", "X", "Y", "1", "2">>, <<"X", "Y", "Z", "1", "2", "3">>, <<"X", "1">>,
     <<"D", "A", "1">>, <<"D", "A", "L">>, <<"D", "A", "L", "X", "1">>,
     <<" ", "d", "a", "l", "1", "2", " ">>, <<"1", "2", "3">>, <<"-", "D", "A", "L">>}

AirlineFeed ==
    {ATransport}
    \cup {AJson(Payload(<<Ac(Str(id), 1, Num(1000))>>)) : id \in CarrierIds \cup OtherIds}

AirlineInit == InitWith({[BaseSettings EXCEPT !.route_lookup_enabled = FALSE]})

AirlineNext ==
    \/ Call(1, {DefaultCenter, <<Num(1), Num(0)>>}, {DefaultRadius})
    \/ AdsbResponse(1, AirlineFeed)

AirlineSpec == AirlineInit /\ [][AirlineNext]_vars

(***************************************************************************)
(* LiveSpec: one invocation after the other, called again and again over  *)
(* the same two identifiers, with a fair environment: every request is     *)
(* answered (each carries its own timeout) and the caller keeps calling.   *)
(* A lookup for one identifier raises at most MaxFail times.               *)
(***************************************************************************)
LiveFeed ==
    {AJson(Payload(<<Ac(Str(<<"a", "1">>), 1, Num(1000)),
                     Ac(Str(<<"b", "2">>), 2, Num(1000))>>)),
     AJson(Payload(<<Ac(Str(<<"b", "2">>), 1, Num(1000)),
                     Ac(Str(<<"A", "1", " ">>), 2, Num(1000))>>))}

LiveKeys == {<<"A", "1">>, <<"B", "2">>}

LiveSettings == {[BaseSettings EXCEPT !.route_max_new_per_cycle = b] : b \in 1..2}

LiveInit == InitWith(LiveSettings)

LiveCall == Call(1, {DefaultCenter}, {DefaultRadius})
LiveAdsb == AdsbResponse(1, LiveFeed)
LiveRoute == RouteResponse(1, RouteOutcomes)

LiveNext == LiveCall \/ LiveAdsb \/ LiveRoute

LiveSpec ==
    /\ LiveInit
    /\ [][LiveNext]_vars
    /\ WF_vars(LiveCall)
    /\ WF_vars(LiveAdsb)
    /\ WF_vars(LiveRoute)

AllCached == \A k \in LiveKeys : k \in DOMAIN route_cache

\* the first record of fl behind record n whose key is not blank and not in
\* the cache; 0 if none
next_uncached(fl, n, cache) ==
    LET S == {m \in (n + 1)..Len(fl) :
                 cache_key(fl[m]) # <<>> /\ cache_key(fl[m]) \notin DOMAIN cache}
    IN  IF S = {} THEN 0 ELSE CHOOSE m \in S : \A x \in S : m <= x

\* C10: with the lookup enabled and a budget of at least 1, invocations
\* called again and again over the same identifiers, and lookups that stop
\* raising after some attempts, every identifier is in the cache from some
\* time on; from then on no outbound lookup is issued; and a lookup that
\* raises for one record is followed, in the same invocation, by the lookup
\* for the next record whose identifier is not cached.
C10_EventuallyResolved ==
    /\ <>[]AllCached
    /\ [][AllCached => issued' = issued]_vars
    /\ [][\A i \in Slots :
             RouteStep(i, "fail") =>
                LET m == next_uncached(flights[i], idx[i], route_cache)
                IN  m > 0 => (pc'[i] = "route" /\ idx'[i] = m)]_vars

\* C10's case: lookups have raised for both identifiers, both are in the
\* cache all the same, and an invocation has returned with both records
\* filled from the cache and no lookup issued
C10_Witness ==
    /\ AllCached
    /\ \A k \in LiveKeys : issued[k] - answered[k] >= 1
    /\ pc[1] = "returned"
    /\ Len(flights[1]) = 2
    /\ \A n \in 1..2 : flights[1][n].how = "hit"

(***************************************************************************)
(* Properties of get_flights without the route cache                       *)
(***************************************************************************)
\* the live-position response is JSON, but not an object with a list "ac"
MalformedBody(o) ==
    /\ o.k = "json"
    /\ \/ o.data.t # "dict"
       \/ "ac" \in DOMAIN o.data /\ o.data.ac.t # "list"

\* C5 as claimed: get_flights never raises, whatever the live-position
\* request and the route lookups answer, and returns the empty list when the
\* live-position request fails or its body is malformed
C5_NeverRaises ==
    \A i \in Slots :
        /\ pc[i] # "raised"
        /\ (pc[i] = "returned" /\ (raw[i] \in AdsbFailures \/ MalformedBody(raw[i]))) =>
              flights[i] = <<>>

\* the entries of a well-formed live-position response
EntriesOf(o) == IF "ac" \in DOMAIN o.data THEN o.data.ac.items ELSE <<>>

\* the raw entry carries a non-blank identifier under one of the two keys
HasIdentifier(ac) ==
    /\ ac.t = "dict"
    /\ \E key \in {"flight", "callsign"} :
          key \in DOMAIN ac /\ ac[key].t = "str" /\ Strip(ac[key].s) # <<>>

\* the raw entry carries a latitude and a longitude
HasPosition(ac) == ac.t = "dict" /\ Get(ac, "lat") # None /\ Get(ac, "lon") # None

RemoveAt(q, k) == SubSeq(q, 1, k - 1) \o SubSeq(q, k + 1, Len(q))

\* a list of flights without the history fields
Plain(fl) ==
    [n \in 1..Len(fl) |->
        [callsign |-> fl[n].callsign, altitude_ft |-> fl[n].altitude_ft,
         distance_km |-> fl[n].distance_km]]

\* the sorted list get_flights hands to the enrichment, the only input of
\* the enrichment besides the cache and the route responses
Snapshot(acs, center) ==
    LET b == build_from(acs, 1, center, <<>>)
    IN  [raise |-> b.raise, flights |-> Plain(sort_flights(b.flights))]

\* C6 as claimed: every record comes from an entry with a non-blank
\* identifier and both coordinates; an entry lacking one of them yields no
\* record, and the list handed to the enrichment is the same without it
C6_EmissionInvariant ==
    \A i \in Slots :
        (pc[i] \in {"route", "returned"} /\ raw[i].k = "json" /\ ~MalformedBody(raw[i])) =>
            LET acs == EntriesOf(raw[i])
            IN  /\ \A n \in 1..Len(flights[i]) :
                      /\ HasIdentifier(acs[flights[i][n].src])
                      /\ HasPosition(acs[flights[i][n].src])
                /\ \A k \in 1..Len(acs) :
                      ~(HasIdentifier(acs[k]) /\ HasPosition(acs[k])) =>
                          /\ \A n \in 1..Len(flights[i]) : flights[i][n].src # k
                          /\ \A c \in {0, 1} :
                                Snapshot(RemoveAt(acs, k), <<c, 0>>)
                                    = Snapshot(acs, <<c, 0>>)

\* altitude_ft, a missing one read as 0
alt_or_zero(f) == IF f.altitude_ft = None THEN 0 ELSE f.altitude_ft.n

\* distance_km, a missing one read as larger than any distance
dist_or_last(f) == IF f.distance_km = None THEN 1000000000 ELSE f.distance_km.n

\* C7 as claimed: adjacent records are in ascending distance, ties in
\* descending altitude with a missing altitude behind every known one
C7_SortedMissingLast ==
    \A i \in Slots :
        pc[i] = "returned" =>
            \A n \in 1..(Len(flights[i]) - 1) :
                LET a == flights[i][n]
                    b == flights[i][n + 1]
                IN  \/ dist_or_last(a) < dist_or_last(b)
                    \/ /\ dist_or_last(a) = dist_or_last(b)
                       /\ \/ b.altitude_ft = None
                          \/ a.altitude_ft # None /\ a.altitude_ft.n >= b.altitude_ft.n

\* C7, amended: every returned record has a distance; adjacent records are
\* in ascending distance, ties in descending altitude where a missing
\* altitude counts as 0 (behind the positive altitudes, before the negative
\* ones), and records equal in both keep the order of the response.
C7_SortedMissingAsZero ==
    \A i \in Slots :
        pc[i] \in {"route", "returned"} =>
            /\ \A n \in 1..Len(flights[i]) : flights[i][n].distance_km # None
            /\ \A n \in 1..(Len(flights[i]) - 1) :
                  LET a == flights[i][n]
                      b == flights[i][n + 1]
                  IN  \/ a.distance_km.n < b.distance_km.n
                      \/ /\ a.distance_km.n = b.distance_km.n
                         /\ \/ alt_or_zero(a) > alt_or_zero(b)
                            \/ alt_or_zero(a) = alt_or_zero(b) /\ a.src < b.src

\* C7's case: three records at one distance come back as 5000 ft, unknown,
\* -100 ft, which is not the order of the response
C7_Witness ==
    /\ pc[1] = "returned"
    /\ Len(flights[1]) = 3
    /\ flights[1][1].distance_km = flights[1][3].distance_km
    /\ flights[1][1].altitude_ft = Num(5000)
    /\ flights[1][2].altitude_ft = None
    /\ flights[1][3].altitude_ft = Num(-100)
    /\ flights[1][1].src = 3

\* C8 as claimed: the radius of the live-position request is a number in
\* [10, 250] NM; a numeric override is clamped into that range and is
\* otherwise unchanged; an absent or non-numeric override gives the
\* configured kilometres divided by 1.852, clamped
C8_RadiusInRange ==
    \A i \in Slots :
        pc[i] = "adsb" =>
            LET a == req[i].radius_arg
                r == req[i].radius_nm
                km == settings.radius_km
            IN  /\ r.t = "num"
                /\ r.n >= 10000
                /\ r.n <= 250000
                /\ a.t = "num" =>
                      r.n = (IF a.n < 10000 THEN 10000
                             ELSE IF a.n > 250000 THEN 250000 ELSE a.n)
                /\ a.t \in {"none", "str"} =>
                      \E q \in 0..300000 :
                          /\ q * 1852 <= km * 1000
                          /\ km * 1000 < (q + 1) * 1852
                          /\ r.n = (IF q < 10000 THEN 10000
                                    ELSE IF q > 250000 THEN 250000 ELSE q)

(***************************************************************************)
(* Properties of the airline lookup                                        *)
(***************************************************************************)
\* the identifier of the raw entry behind record n of slot i, as received
raw_identifier(i, n) == Get(EntriesOf(raw[i])[flights[i][n].src], "flight").s

AllDigits(s) == s # <<>> /\ \A k \in 1..Len(s) : s[k] \in Digits

\* id is code followed by one or more digits
CodeThenDigits(id, code) ==
    /\ Len(id) > Len(code)
    /\ SubSeq(id, 1, Len(code)) = code
    /\ AllDigits(SubSeq(id, Len(code) + 1, Len(id)))

\* a civil registration: the letter N followed by an alphanumeric
CivilRegistration(id) == Len(id) >= 2 /\ id[1] = "N" /\ IsAlnum(id[2])

\* the leading run of letters of id, up to 3 of them
LeadingLetters(id) ==
    LET k == CHOOSE k \in 0..3 :
                 /\ k <= Len(id)
                 /\ \A j \in 1..k : IsAlpha(id[j])
                 /\ k = 3 \/ k = Len(id) \/ ~IsAlpha(id[k + 1])
    IN  SubSeq(id, 1, k)

\* C11 as claimed: a record whose identifier is a carrier code of the table
\* followed by one or more digits carries that code's carrier name; the
\* general-aviation category is carried only by records whose identifier is
\* a civil registration; a record whose leading letters are in no table
\* entry carries no carrier
C11_OperatorTable ==
    \A i \in Slots :
        (pc[i] = "returned" /\ raw[i].k = "json") =>
            \A n \in 1..Len(flights[i]) :
                LET id == raw_identifier(i, n)
                    cs == Upper(Strip(id))
                    airline == flights[i][n].airline
                IN  /\ \A code \in DOMAIN AIRLINE_PREFIXES :
                          CodeThenDigits(id, code) => airline = AIRLINE_PREFIXES[code]
                    /\ airline = AIRLINE_PREFIXES[<<"N">>] => CivilRegistration(cs)
                    /\ LeadingLetters(cs) \notin DOMAIN AIRLINE_PREFIXES => airline = None

====
